---- MODULE Spec2Model ----
(***************************************************************************)
(* Model of cymatics.py: the Chladni pattern pipeline                      *)
(*   calculate_modes -> compute_wave_pattern -> np.where threshold         *)
(*   -> display_pattern.                                                   *)
(*                                                                         *)
(* float64 values are modelled as fixed-point integers in units of         *)
(* 1/SCALE.  Every arithmetic operation of the source is one operation of  *)
(* the model, in the source's order, rounded to nearest (ties to even) as  *)
(* an IEEE operation is.  The non-finite results numpy produces instead of *)
(* raising (nan, inf) are modelled in calculate_modes, the only place the  *)
(* source can produce them from integer inputs.                            *)
(***************************************************************************)
EXTENDS Integers, Sequences, FiniteSets, TLC

VARIABLES pc, grid_size, frequency, sound_speed, mode_difference, threshold,
          m, n, wave_pattern, pattern_chladni, raised, shown

vars == <<pc, grid_size, frequency, sound_speed, mode_difference, threshold,
          m, n, wave_pattern, pattern_chladni, raised, shown>>

inputs == <<grid_size, frequency, sound_speed, mode_difference, threshold>>

(* ------------------------------ bounds -------------------------------- *)

\* largest grid_size drawn
MaxGrid == 4
\* direct calls of compute_wave_pattern draw m, n from -MaxMode..MaxMode
MaxMode == 3
\* largest side of a two-level matrix handed to the thresholding rule
MaxBin == 2

(* --------------------------- float64 model ---------------------------- *)

\* resolution of the fixed-point representation of a float64
SCALE == 1000
\* np.pi in units of 1/SCALE
Pi == 3142
\* 2 * np.pi
TwoPi == 2 * Pi

Abs(v) == IF v < 0 THEN -v ELSE v

Sgn(v) == IF v < 0 THEN -1 ELSE 1

\* a / b rounded to the nearest integer, ties to even (b # 0)
RoundDiv(a, b) ==
    LET num == IF b < 0 THEN -a ELSE a
        den == Abs(b)
        q == num \div den
        r == num % den
    IN  IF 2 * r < den THEN q
        ELSE IF 2 * r > den THEN q + 1
        ELSE IF q % 2 = 0 THEN q ELSE q + 1

\* float * float
FMul(a, b) == RoundDiv(a * b, SCALE)

\* float / float, b # 0
FDiv(a, b) == RoundDiv(a * SCALE, b)

\* an int converted to float
ToFloat(k) == k * SCALE

\* int / int (Python true division), b # 0
TrueDiv(a, b) == RoundDiv(a * SCALE, b)

\* sqrt of a non-negative int, rounded to nearest
SqrtFx(g) ==
    LET X == g * SCALE * SCALE
        r == CHOOSE s \in 0..(g * SCALE) : s * s <= X /\ X < (s + 1) * (s + 1)
    IN  IF X > r * r + r THEN r + 1 ELSE r

\* cos on [0, pi/2]: the Taylor polynomial to x^8, each step rounded
CosQuadrant(a) ==
    LET x2 == FMul(a, a)
        t2 == RoundDiv(x2, 2)
        t4 == RoundDiv(FMul(t2, x2), 12)
        t6 == RoundDiv(FMul(t4, x2), 30)
        t8 == RoundDiv(FMul(t6, x2), 56)
    IN  SCALE - t2 + t4 - t6 + t8

\* np.cos: reduction modulo 2 pi, then the symmetries of the cosine
np_cos(a) ==
    LET r == a % TwoPi
        h == IF r > Pi THEN TwoPi - r ELSE r
    IN  IF 2 * h > Pi THEN -CosQuadrant(Pi - h) ELSE CosQuadrant(h)

\* float64 scalars that may be non-finite
Fin(v) == [cls |-> "fin", v |-> v]
NaN == [cls |-> "nan", v |-> 0]
Inf(s) == [cls |-> "inf", v |-> s]

\* mutant of np_sqrt: the root of the magnitude, so no nan arises
np_sqrt_abs(g) == Fin(SqrtFx(Abs(g)))

\* np.sqrt of an int: nan (and a RuntimeWarning, no exception) below zero
np_sqrt(g) == IF g < 0 THEN NaN ELSE Fin(SqrtFx(g))

\* division with an np.float64 operand: never raises, yields nan or inf
np_divide(a, b) ==
    IF a.cls = "nan" \/ b.cls = "nan" THEN NaN
    ELSE IF b.cls = "inf" THEN (IF a.cls = "inf" THEN NaN ELSE Fin(0))
    ELSE IF a.cls = "inf" THEN Inf(a.v * Sgn(b.v))
    ELSE IF b.v = 0 THEN (IF a.v = 0 THEN NaN ELSE Inf(Sgn(a.v)))
    ELSE Fin(FDiv(a.v, b.v))

\* np.round: to the nearest integer, ties to even; nan and inf pass through
np_round(q) ==
    IF q.cls = "fin" THEN Fin(RoundDiv(q.v, SCALE) * SCALE) ELSE q

(* --------------------------- calculate_modes -------------------------- *)

\* wavelength / (2 * np.pi / length), lines 16-18, frequency # 0
mode_quotient(f, c, g) ==
    LET length == np_sqrt(g)
        wavelength == Fin(TrueDiv(c, f))
    IN  np_divide(wavelength, np_divide(Fin(TwoPi), length))

Raise(e) == [err |-> e, m |-> 0, n |-> 0]

\* mutant of calculate_modes: int() of the quotient without np.round
calculate_modes_trunc(f, c, g, d) ==
    IF f = 0 THEN Raise("ZeroDivisionError")
    ELSE LET q == mode_quotient(f, c, g)
             n_mode == Sgn(q.v) * (Abs(q.v) \div SCALE)
         IN  IF q.cls = "nan" THEN Raise("ValueError")
             ELSE IF q.cls = "inf" THEN Raise("OverflowError")
             ELSE [err |-> "none", m |-> n_mode + d, n |-> n_mode]

\* the result of calculate_modes(f, c, g, d): the pair (m, n), or the
\* exception that leaves it.  sound_speed / frequency divides Python
\* numbers (ZeroDivisionError); int() refuses nan (ValueError) and inf
\* (OverflowError).
calculate_modes(f, c, g, d) ==
    IF f = 0 THEN Raise("ZeroDivisionError")
    ELSE LET r == np_round(mode_quotient(f, c, g))
             n_mode == r.v \div SCALE
         IN  IF r.cls = "nan" THEN Raise("ValueError")
             ELSE IF r.cls = "inf" THEN Raise("OverflowError")
             ELSE [err |-> "none", m |-> n_mode + d, n |-> n_mode]

(* ------------------------- compute_wave_pattern ----------------------- *)

\* mutant of linspace: one sample too many
linspace_extra(stop, num) ==
    [i \in 1..(IF num > 0 THEN num + 1 ELSE 0) |-> (i - 1) * TrueDiv(stop, num)]

\* np.linspace(0, stop, num), num >= 0: num evenly spaced samples, the last
\* one set to stop itself
linspace(stop, num) ==
    LET step == IF num > 1 THEN TrueDiv(stop, num - 1) ELSE 0
    IN  [i \in 1..num |->
            IF num > 1 /\ i = num THEN ToFloat(stop) ELSE (i - 1) * step]

\* np.meshgrid(x, y): x varies along a row, y along a column
x_mesh(x, y) == [i \in 1..Len(y) |-> [j \in 1..Len(x) |-> x[j]]]

y_mesh(x, y) == [i \in 1..Len(y) |-> [j \in 1..Len(x) |-> y[i]]]

\* k * (v * np.pi / L)
phase(k, v, L) == k * RoundDiv(FMul(v, Pi), L)

\* mutant of compute_wave_pattern: the two products added
compute_wave_pattern_plus(g, km, kn) ==
    LET L == g
        x == linspace(L, g)
        y == linspace(L, g)
        xm == x_mesh(x, y)
        ym == y_mesh(x, y)
    IN  [i \in 1..Len(y) |-> [j \in 1..Len(x) |->
            FMul(np_cos(phase(kn, xm[i][j], L)), np_cos(phase(km, ym[i][j], L)))
          + FMul(np_cos(phase(km, xm[i][j], L)), np_cos(phase(kn, ym[i][j], L)))]]

\* mutant of compute_wave_pattern: x_mesh for y_mesh in the second product
compute_wave_pattern_xx(g, km, kn) ==
    LET L == g
        x == linspace(L, g)
        y == linspace(L, g)
        xm == x_mesh(x, y)
        ym == y_mesh(x, y)
    IN  [i \in 1..Len(y) |-> [j \in 1..Len(x) |->
            FMul(np_cos(phase(kn, xm[i][j], L)), np_cos(phase(km, ym[i][j], L)))
          - FMul(np_cos(phase(km, xm[i][j], L)), np_cos(phase(kn, xm[i][j], L)))]]

\* mutant of compute_wave_pattern: m for n in the second product
compute_wave_pattern_mm(g, km, kn) ==
    LET L == g
        x == linspace(L, g)
        y == linspace(L, g)
        xm == x_mesh(x, y)
        ym == y_mesh(x, y)
    IN  [i \in 1..Len(y) |-> [j \in 1..Len(x) |->
            FMul(np_cos(phase(kn, xm[i][j], L)), np_cos(phase(km, ym[i][j], L)))
          - FMul(np_cos(phase(km, xm[i][j], L)), np_cos(phase(km, ym[i][j], L)))]]

\* compute_wave_pattern(g, km, kn), g >= 0
compute_wave_pattern(g, km, kn) ==
    LET L == g
        x == linspace(L, g)
        y == linspace(L, g)
        xm == x_mesh(x, y)
        ym == y_mesh(x, y)
    IN  [i \in 1..Len(y) |-> [j \in 1..Len(x) |->
            FMul(np_cos(phase(kn, xm[i][j], L)), np_cos(phase(km, ym[i][j], L)))
          - FMul(np_cos(phase(km, xm[i][j], L)), np_cos(phase(kn, ym[i][j], L)))]]

(* ----------------------------- thresholding --------------------------- *)

\* mutant of apply_threshold: <= for <
apply_threshold_le(wave, t) ==
    [i \in 1..Len(wave) |-> [j \in 1..Len(wave[i]) |->
        IF Abs(wave[i][j]) <= t THEN 0 ELSE 255]]

\* mutant of apply_threshold: np.abs left out
apply_threshold_noabs(wave, t) ==
    [i \in 1..Len(wave) |-> [j \in 1..Len(wave[i]) |->
        IF wave[i][j] < t THEN 0 ELSE 255]]

\* mutant of apply_threshold: the two levels of np.where exchanged
apply_threshold_swapped(wave, t) ==
    [i \in 1..Len(wave) |-> [j \in 1..Len(wave[i]) |->
        IF Abs(wave[i][j]) < t THEN 255 ELSE 0]]

\* np.where(np.abs(wave) < t, 0, 255), line 65
apply_threshold(wave, t) ==
    [i \in 1..Len(wave) |-> [j \in 1..Len(wave[i]) |->
        IF Abs(wave[i][j]) < t THEN 0 ELSE 255]]

\* an int matrix read as a float matrix
MatToFloat(mat) ==
    [i \in 1..Len(mat) |-> [j \in 1..Len(mat[i]) |-> ToFloat(mat[i][j])]]

(* ------------------------------- inputs ------------------------------- *)

GridSizes == -1..MaxGrid
Frequencies == {0, 100, 5201}
SoundSpeeds == {343, 5210}
ModeDifferences == {-1, 0, 2}
\* 0, 0.1, 2 and 300 in units of 1/SCALE
Thresholds == {0, 100, 2000, 300000}
Modes == -MaxMode..MaxMode

NoRaise == [type |-> "none", in |-> "none"]

\* all size x size matrices over the two output levels, as floats
TwoLevel(size) == [1..size -> [1..size -> {ToFloat(0), ToFloat(255)}]]

(* ------------------------------- states ------------------------------- *)

\* generate_chladni_pattern has been called (line 94)
Init ==
    /\ pc = "start"
    /\ grid_size \in GridSizes
    /\ frequency \in Frequencies
    /\ sound_speed \in SoundSpeeds
    /\ mode_difference \in ModeDifferences
    /\ threshold \in Thresholds
    /\ m = 0 /\ n = 0
    /\ wave_pattern = <<>> /\ pattern_chladni = <<>>
    /\ raised = NoRaise
    /\ shown = <<>>

\* line 61
CalculateModes ==
    /\ pc = "start"
    /\ LET res == calculate_modes(frequency, sound_speed, grid_size, mode_difference)
       IN  IF res.err = "none"
           THEN /\ pc' = "modes"
                /\ m' = res.m /\ n' = res.n
                /\ raised' = raised
           ELSE /\ pc' = "raised"
                /\ raised' = [type |-> res.err, in |-> "calculate_modes"]
                /\ UNCHANGED <<m, n>>
    /\ UNCHANGED <<inputs, wave_pattern, pattern_chladni, shown>>

\* line 64; np.linspace raises ValueError for a negative number of samples
ComputeWavePattern ==
    /\ pc = "modes"
    /\ IF grid_size < 0
       THEN /\ pc' = "raised"
            /\ raised' = [type |-> "ValueError", in |-> "compute_wave_pattern"]
            /\ UNCHANGED wave_pattern
       ELSE /\ pc' = "field"
            /\ wave_pattern' = compute_wave_pattern(grid_size, m, n)
            /\ raised' = raised
    /\ UNCHANGED <<inputs, m, n, pattern_chladni, shown>>

\* lines 65-67
ApplyThreshold ==
    /\ pc = "field"
    /\ pattern_chladni' = apply_threshold(wave_pattern, threshold)
    /\ pc' = "returned"
    /\ UNCHANGED <<inputs, m, n, wave_pattern, raised, shown>>

\* line 95: the returned pattern is handed to display_pattern
DisplayPattern ==
    /\ pc = "returned"
    /\ shown' = pattern_chladni
    /\ pc' = "displayed"
    /\ UNCHANGED <<inputs, m, n, wave_pattern, pattern_chladni, raised>>

Next == CalculateModes \/ ComputeWavePattern \/ ApplyThreshold \/ DisplayPattern

Spec == Init /\ [][Next]_vars

\* compute_wave_pattern called with any mode pair, then thresholded
InitWave ==
    /\ pc = "modes"
    /\ grid_size \in GridSizes
    /\ frequency = 5201 /\ sound_speed = 5210 /\ mode_difference = 0
    /\ threshold \in Thresholds
    /\ m \in Modes /\ n \in Modes
    /\ wave_pattern = <<>> /\ pattern_chladni = <<>>
    /\ raised = NoRaise
    /\ shown = <<>>

NextWave == ComputeWavePattern \/ ApplyThreshold

SpecWave == InitWave /\ [][NextWave]_vars

\* the thresholding rule applied to a matrix of the two output levels
InitThresh ==
    /\ pc = "field"
    /\ grid_size \in 1..MaxBin
    /\ frequency = 5201 /\ sound_speed = 5210 /\ mode_difference = 0
    /\ threshold \in Thresholds \cup {ToFloat(255)}
    /\ m = 0 /\ n = 0
    /\ wave_pattern \in TwoLevel(grid_size)
    /\ pattern_chladni = <<>>
    /\ raised = NoRaise
    /\ shown = <<>>

NextThresh == ApplyThreshold

SpecThresh == InitThresh /\ [][NextThresh]_vars

(* ------------------------------- claims ------------------------------- *)

Computed == pc \in {"field", "returned", "displayed"}

Returned == pc \in {"returned", "displayed"}

Cells == 1..Len(wave_pattern)

\* C1: with m = n, every element of the field compute_wave_pattern returns
\* is exactly zero, whatever the grid size.
C1_EqualModesZeroField ==
    (Computed /\ m = n) =>
        /\ Len(wave_pattern) = grid_size
        /\ \A i \in Cells : \A j \in Cells : wave_pattern[i][j] = 0

C1_Witness == pc = "field" /\ m = n /\ m # 0 /\ grid_size >= 3

\* C2: the field of the exchanged mode pair (n, m) is the negated field of
\* (m, n) at every grid point, and both give the same thresholded pattern.
C2_SwapNegates ==
    Computed =>
        LET swapped == compute_wave_pattern(grid_size, n, m)
        IN  /\ Len(swapped) = Len(wave_pattern)
            /\ \A i \in Cells : \A j \in Cells :
                   swapped[i][j] = -wave_pattern[i][j]
            /\ \A t \in Thresholds :
                   apply_threshold(swapped, t) = apply_threshold(wave_pattern, t)
            /\ Returned => pattern_chladni = apply_threshold(swapped, threshold)

C2_Witness ==
    /\ pc = "returned" /\ m # n
    /\ \E i \in Cells : \E j \in Cells :
           /\ wave_pattern[i][j] < 0
           /\ Abs(wave_pattern[i][j]) > threshold
           /\ threshold > 0
           /\ pattern_chladni[i][j] = 255

\* C3: the pattern holds 0 where |v| < threshold and 255 elsewhere, so an
\* element with |v| = threshold is 255, and no other value occurs.
C3_ThresholdRule ==
    Returned =>
        /\ Len(pattern_chladni) = Len(wave_pattern)
        /\ \A i \in Cells : \A j \in Cells :
               LET v == wave_pattern[i][j]
                   p == pattern_chladni[i][j]
               IN  /\ p \in {0, 255}
                   /\ (Abs(v) < threshold) => p = 0
                   /\ (Abs(v) > threshold) => p = 255
                   /\ (Abs(v) = threshold) => p = 255

C3_Witness ==
    /\ pc = "returned" /\ threshold > 0
    /\ \E i \in Cells : \E j \in Cells :
           /\ wave_pattern[i][j] = -threshold
           /\ pattern_chladni[i][j] = 255
    /\ \E i \in Cells : \E j \in Cells : pattern_chladni[i][j] = 0

\* C4 as stated: at any positive threshold the thresholding rule returns a
\* matrix of the values 0 and 255 unchanged.
C4_IdempotentAnyPositive ==
    (pc = "returned" /\ threshold > 0) =>
        MatToFloat(pattern_chladni) = wave_pattern

\* C4 as amended: at any threshold with 0 < threshold <= 255 the
\* thresholding rule returns a matrix of the values 0 and 255 unchanged.
C4_IdempotentUpTo255 ==
    (pc = "returned" /\ threshold > 0 /\ threshold <= ToFloat(255)) =>
        MatToFloat(pattern_chladni) = wave_pattern

C4_Witness ==
    /\ pc = "returned" /\ threshold = ToFloat(255)
    /\ \E i \in Cells : \E j \in Cells : pattern_chladni[i][j] = 255
    /\ \E i \in Cells : \E j \in Cells : pattern_chladni[i][j] = 0

BadInput == frequency = 0 \/ grid_size < 0

Complete(mat) ==
    Len(mat) = grid_size /\ \A i \in 1..Len(mat) : Len(mat[i]) = grid_size

\* C5: with frequency zero or a negative grid size the call fails: the
\* exception leaves calculate_modes, before any field is evaluated, no
\* pattern is returned and nothing is displayed; a call that returns
\* returns a complete matrix.
C5_BadInputFailsInModes ==
    /\ [](BadInput =>
            /\ pc \in {"start", "raised"}
            /\ wave_pattern = <<>> /\ pattern_chladni = <<>> /\ shown = <<>>)
    /\ [](pc = "raised" =>
            /\ raised.type # "none" /\ raised.in = "calculate_modes"
            /\ pattern_chladni = <<>> /\ shown = <<>>)
    /\ [](Returned => Complete(pattern_chladni))
    /\ [][(pc = "start" /\ BadInput) => pc' = "raised"]_vars

C5_Witness ==
    /\ pc = "raised" /\ grid_size < 0 /\ frequency # 0
    /\ raised = [type |-> "ValueError", in |-> "calculate_modes"]

\* C6: for a grid size of zero or less no pattern is returned: the call
\* ends with an exception.
C6_NonPositiveGridFails ==
    grid_size <= 0 => ~Returned

\* C7 as stated: with m = 0 and n = 0 the field is all zeros and the
\* pattern is all zeros, at every threshold >= 0.
C7_ZeroModesAllNodes ==
    (m = 0 /\ n = 0 /\ threshold >= 0) =>
        /\ Computed => \A i \in Cells : \A j \in Cells : wave_pattern[i][j] = 0
        /\ Returned => /\ Complete(pattern_chladni)
                       /\ \A i \in Cells : \A j \in Cells :
                              pattern_chladni[i][j] = 0

\* C7 as amended: with m = 0 and n = 0 the field is all zeros and the
\* pattern is all zeros, at every threshold > 0.
C7_ZeroModesAllNodesPositive ==
    (m = 0 /\ n = 0 /\ threshold > 0) =>
        /\ Computed => \A i \in Cells : \A j \in Cells : wave_pattern[i][j] = 0
        /\ Returned => /\ Complete(pattern_chladni)
                       /\ \A i \in Cells : \A j \in Cells :
                              pattern_chladni[i][j] = 0

C7_Witness ==
    /\ pc = "returned" /\ m = 0 /\ n = 0 /\ threshold > 0 /\ grid_size >= 2
    /\ pattern_chladni[grid_size][1] = 0

\* C8: for grid_size >= 1 the field has exactly grid_size rows of
\* grid_size elements, and so has the pattern.
C8_Shape ==
    /\ (Computed /\ grid_size >= 1) => Complete(wave_pattern)
    /\ (Returned /\ grid_size >= 1) => Complete(pattern_chladni)

C8_Witness ==
    /\ pc = "returned" /\ grid_size >= 3 /\ m # n
    /\ Len(pattern_chladni) = grid_size
    /\ Len(pattern_chladni[grid_size]) = grid_size

\* C9: when calculate_modes returns, n is the integer nearest to
\* sound_speed / frequency / (2 pi / sqrt(grid_size)), m = n + mode_difference,
\* and (4, 5201, 5210, 2) gives m = 2, n = 0.
C9_ModesFormula ==
    pc \notin {"start", "raised"} =>
        LET q == mode_quotient(frequency, sound_speed, grid_size)
        IN  /\ q.cls = "fin"
            /\ 2 * Abs(q.v - ToFloat(n)) <= SCALE
            /\ (2 * Abs(q.v - ToFloat(n)) = SCALE) => n % 2 = 0
            /\ m = n + mode_difference
            /\ (grid_size = 4 /\ frequency = 5201 /\ sound_speed = 5210
                  /\ mode_difference = 2) => (m = 2 /\ n = 0)

C9_Witness ==
    /\ pc = "modes" /\ grid_size = 4 /\ frequency = 5201
    /\ sound_speed = 5210 /\ mode_difference = 2 /\ m = 2 /\ n = 0

\* C10: the field is antisymmetric under transposition, so its main
\* diagonal is zero; the pattern is symmetric under transposition and, for
\* a threshold > 0, its main diagonal is 0.
C10_Antisymmetric ==
    /\ Computed =>
           \A i \in Cells : \A j \in Cells :
               /\ wave_pattern[i][j] = -wave_pattern[j][i]
               /\ wave_pattern[i][i] = 0
    /\ Returned =>
           \A i \in Cells : \A j \in Cells :
               /\ pattern_chladni[i][j] = pattern_chladni[j][i]
               /\ threshold > 0 => pattern_chladni[i][i] = 0

C10_Witness ==
    /\ pc = "returned" /\ threshold > 0 /\ grid_size >= 3
    /\ \E i \in Cells : \E j \in Cells :
           /\ wave_pattern[i][j] > 0 /\ wave_pattern[j][i] < 0
           /\ pattern_chladni[i][j] = 255 /\ pattern_chladni[j][i] = 255

====
